---- MODULE Spec2Model ----
(***************************************************************************)
(* Model of NcpValidator.validate                                          *)
(* (src/sdks/python/neural_content_protocol/validator.py).                 *)
(*                                                                         *)
(* One behaviour is one call validate(payload, crawled_domain).  The       *)
(* arguments are chosen in Init, `result` is the accumulator built at      *)
(* lines 24-32, and `pc` is the position of the call: one action per       *)
(* numbered check of the source, then the three assignments of the         *)
(* compliance level algorithm.                                             *)
(*                                                                         *)
(* Python strings are sequences of one-character strings, so that          *)
(* startswith, replace, len and the host extraction of urlparse are        *)
(* computed character by character.  A JSON value is a record              *)
(* [t, b, n, s]: its type tag, and its boolean, numeric (in tenths, a      *)
(* list's or dict's size for a container) and string content.  The         *)
(* message text of a finding is not modelled.                              *)
(***************************************************************************)
EXTENDS Integers, Sequences, FiniteSets, TLC

VARIABLES payload, crawled_domain, result, pc

vars == <<payload, crawled_domain, result, pc>>

(***************************************************************************)
(* Python strings                                                          *)
(***************************************************************************)

\* str.startswith(prefix)
StartsWith(s, prefix) ==
    /\ Len(s) >= Len(prefix)
    /\ SubSeq(s, 1, Len(prefix)) = prefix

\* str.replace(old, new) from index i of s on: every non-overlapping
\* occurrence of old (never empty here), left to right
RECURSIVE ReplaceFrom(_, _, _, _)
ReplaceFrom(s, old, new, i) ==
    IF i > Len(s) THEN <<>>
    ELSE IF i + Len(old) - 1 <= Len(s) /\ SubSeq(s, i, i + Len(old) - 1) = old
         THEN new \o ReplaceFrom(s, old, new, i + Len(old))
         ELSE <<s[i]>> \o ReplaceFrom(s, old, new, i + 1)

\* str.replace(old, new)
Replace(s, old, new) == ReplaceFrom(s, old, new, 1)

\* `c in s` for a one-character c
Contains(s, c) == \E i \in 1..Len(s) : s[i] = c

\* index of the first character of s that is in set cs, Len(s)+1 when none
RECURSIVE FirstOf(_, _, _)
FirstOf(s, cs, i) ==
    IF i > Len(s) THEN Len(s) + 1
    ELSE IF s[i] \in cs THEN i ELSE FirstOf(s, cs, i + 1)

\* index of the last occurrence of c in s, 0 when none
RECURSIVE LastOf(_, _, _)
LastOf(s, c, i) ==
    IF i < 1 THEN 0
    ELSE IF s[i] = c THEN i ELSE LastOf(s, c, i - 1)

UpperCase == <<"A","B","C","D","E","F","G","H","I","J","K","L","M",
               "N","O","P","Q","R","S","T","U","V","W","X","Y","Z">>
LowerCase == <<"a","b","c","d","e","f","g","h","i","j","k","l","m",
               "n","o","p","q","r","s","t","u","v","w","x","y","z">>

\* str.lower() on ASCII
LowerChar(c) ==
    IF \E i \in 1..Len(UpperCase) : UpperCase[i] = c
    THEN LowerCase[CHOOSE i \in 1..Len(UpperCase) : UpperCase[i] = c]
    ELSE c

Lower(s) == [i \in 1..Len(s) |-> LowerChar(s[i])]

Digits == {"0","1","2","3","4","5","6","7","8","9"}
HexDigits == Digits \cup {"a","b","c","d","e","f","A","B","C","D","E","F"}

DigitValue(c) ==
    CASE c = "0" -> 0 [] c = "1" -> 1 [] c = "2" -> 2 [] c = "3" -> 3
      [] c = "4" -> 4 [] c = "5" -> 5 [] c = "6" -> 6 [] c = "7" -> 7
      [] c = "8" -> 8 [] c = "9" -> 9

AllDigits(s) == \A i \in 1..Len(s) : s[i] \in Digits

\* the value of a two-digit field
TwoDigits(s, i) == 10 * DigitValue(s[i]) + DigitValue(s[i + 1])

(***************************************************************************)
(* urllib.parse.urlparse(url).hostname, for a url that starts with         *)
(* "https://" (the only urls line 64 is reached with).                     *)
(***************************************************************************)

HTTPS == <<"h","t","t","p","s",":","/","/">>

\* the network location: what follows the scheme's "//" up to the first
\* "/", "?" or "#"
Netloc(url) ==
    LET rest == SubSeq(url, Len(HTTPS) + 1, Len(url))
    IN  SubSeq(rest, 1, FirstOf(rest, {"/", "?", "#"}, 1) - 1)

\* netloc.rpartition('@')[2]
HostInfo(netloc) ==
    SubSeq(netloc, LastOf(netloc, "@", Len(netloc)) + 1, Len(netloc))

\* the text between "[" and "]" of a bracketed host
Bracketed(hostinfo) ==
    LET open == FirstOf(hostinfo, {"["}, 1)
        tail == SubSeq(hostinfo, open + 1, Len(hostinfo))
    IN  SubSeq(tail, 1, FirstOf(tail, {"]"}, 1) - 1)

\* ipaddress accepts the bracketed text as an IPv6 literal (hex groups
\* separated by colons, at least two colons)
LooksLikeIPv6(h) ==
    /\ \A i \in 1..Len(h) : h[i] \in HexDigits \cup {":"}
    /\ Cardinality({i \in 1..Len(h) : h[i] = ":"}) >= 2

\* urlsplit raises ValueError ("Invalid IPv6 URL", or a bracketed host
\* that is no IP literal)
UrlparseRaises(url) ==
    LET netloc == Netloc(url)
    IN  \/ Contains(netloc, "[") /\ ~Contains(netloc, "]")
        \/ Contains(netloc, "]") /\ ~Contains(netloc, "[")
        \/ /\ Contains(netloc, "[") /\ Contains(netloc, "]")
           /\ ~LooksLikeIPv6(Bracketed(HostInfo(netloc)))

\* SplitResult.hostname: no userinfo, no port, lower-cased up to a "%"
\* zone; <<>> stands for None
Hostname(url) ==
    LET hostinfo == HostInfo(Netloc(url))
        host == IF Contains(hostinfo, "[")
                THEN Bracketed(hostinfo)
                ELSE SubSeq(hostinfo, 1, FirstOf(hostinfo, {":"}, 1) - 1)
        zone == FirstOf(host, {"%"}, 1)
    IN  Lower(SubSeq(host, 1, zone - 1)) \o SubSeq(host, zone, Len(host))

(***************************************************************************)
(* datetime.fromisoformat: YYYY-MM-DD, optionally followed by a separator  *)
(* character, HH:MM:SS and a +HH:MM / -HH:MM offset.                       *)
(***************************************************************************)

IsoDateOk(s) ==
    /\ Len(s) = 10
    /\ s[5] = "-" /\ s[8] = "-"
    /\ AllDigits(SubSeq(s, 1, 4)) /\ AllDigits(SubSeq(s, 6, 7))
    /\ AllDigits(SubSeq(s, 9, 10))
    /\ SubSeq(s, 1, 4) # <<"0","0","0","0">>
    /\ TwoDigits(s, 6) \in 1..12
    /\ TwoDigits(s, 9) \in 1..31

IsoTimeOk(s) ==
    /\ Len(s) = 8
    /\ s[3] = ":" /\ s[6] = ":"
    /\ AllDigits(SubSeq(s, 1, 2)) /\ AllDigits(SubSeq(s, 4, 5))
    /\ AllDigits(SubSeq(s, 7, 8))
    /\ TwoDigits(s, 1) \in 0..23
    /\ TwoDigits(s, 4) \in 0..59
    /\ TwoDigits(s, 7) \in 0..59

IsoOffsetOk(s) ==
    /\ Len(s) = 6
    /\ s[1] \in {"+", "-"}
    /\ s[4] = ":"
    /\ AllDigits(SubSeq(s, 2, 3)) /\ AllDigits(SubSeq(s, 5, 6))
    /\ TwoDigits(s, 2) \in 0..23
    /\ TwoDigits(s, 5) \in 0..59

\* fromisoformat(s) raises ValueError
FromIsoformatRaises(s) ==
    ~ \/ IsoDateOk(s)
      \/ /\ Len(s) = 19
         /\ IsoDateOk(SubSeq(s, 1, 10))
         /\ IsoTimeOk(SubSeq(s, 12, 19))
      \/ /\ Len(s) = 25
         /\ IsoDateOk(SubSeq(s, 1, 10))
         /\ IsoTimeOk(SubSeq(s, 12, 19))
         /\ IsoOffsetOk(SubSeq(s, 20, 25))

(***************************************************************************)
(* JSON values                                                             *)
(***************************************************************************)

\* numbers are kept in tenths: 8.5 is 85
Scaled(x) == x * 10

Absent == [t |-> "absent", b |-> FALSE, n |-> 0, s |-> <<>>]
Null == [t |-> "null", b |-> FALSE, n |-> 0, s |-> <<>>]
Bool(x) == [t |-> "bool", b |-> x, n |-> 0, s |-> <<>>]
Num(tenths) == [t |-> "num", b |-> FALSE, n |-> tenths, s |-> <<>>]
Str(chars) == [t |-> "str", b |-> FALSE, n |-> 0, s |-> chars]
\* a list or a dict where a scalar is expected; n is its size
Container(tag, size) == [t |-> tag, b |-> FALSE, n |-> size, s |-> <<>>]

\* dict.get(key) of a missing key is None
IsNone(v) == v.t \in {"absent", "null"}
IsStr(v) == v.t = "str"
IsBool(v) == v.t = "bool"
IsDict(v) == v.t = "dict"
IsList(v) == v.t = "list"
\* isinstance(v, (int, float)): bool is a subclass of int
IsNumber(v) == v.t \in {"num", "bool"}
NumValue(v) == IF v.t = "bool" THEN (IF v.b THEN Scaled(1) ELSE 0) ELSE v.n

\* Python truth value
Truthy(v) ==
    CASE v.t \in {"absent", "null"} -> FALSE
      [] v.t = "bool" -> v.b
      [] v.t = "num" -> v.n # 0
      [] v.t = "str" -> v.s # <<>>
      [] OTHER -> v.n # 0

\* truth value of a payload section: a dict with at least one key
DictTruthy(d, keys) == IsDict(d) /\ \E k \in keys : d[k].t # "absent"

(***************************************************************************)
(* Program constants                                                       *)
(***************************************************************************)

NCP10 == <<"N","C","P","/","1",".","0">>

SEMANTIC_TYPES == <<
    <<"u","n","i","v","e","r","s","a","l">>,
    <<"p","r","o","d","u","c","t">>,
    <<"a","r","t","i","c","l","e">>,
    <<"o","r","g","a","n","i","z","a","t","i","o","n">>,
    <<"s","e","r","v","i","c","e">>,
    <<"p","e","r","s","o","n">>,
    <<"e","v","e","n","t">> >>

WWW == <<"w","w","w",".">>

INITIAL_SCORE == 100
SEMANTIC_TYPE_DEDUCTION == 10
ORIGIN_DEDUCTION == 20
SUMMARY_DEDUCTION == 5
NAME_MIN == 3
NAME_MAX == 120
TRUST_MAX == 10
MAX_SIGNALS == 20
MAX_PRIMARY == 10
SUMMARY_MIN == 50
HIGH_TRUST == 7

\* `x in self.SEMANTIC_TYPES`
InSemanticTypes(v) ==
    IsStr(v) /\ \E i \in 1..Len(SEMANTIC_TYPES) : SEMANTIC_TYPES[i] = v.s

(***************************************************************************)
(* The result accumulator                                                  *)
(***************************************************************************)

NewResult ==
    [ncp_version |-> "1.0",
     status |-> "FAIL",
     compliance_level |-> "NONE",
     score |-> INITIAL_SCORE,
     blocking_errors |-> <<>>,
     warnings |-> <<>>,
     recommendations |-> <<>>]

\* _add_error: the finding goes to the list of its severity
AddError(code, path, severity, r) ==
    LET error_obj == [code |-> code, severity |-> severity, path |-> path]
    IN  IF severity = "BLOCKING"
        THEN [r EXCEPT !.blocking_errors = Append(@, error_obj)]
        ELSE IF severity = "WARNING"
        THEN [r EXCEPT !.warnings = Append(@, error_obj)]
        ELSE [r EXCEPT !.recommendations = Append(@, error_obj)]

\* `result['score'] -= d`
Deduct(r, d) == [r EXCEPT !.score = @ - d]

Codes(findings) == {findings[i].code : i \in 1..Len(findings)}

(***************************************************************************)
(* The checks of validate, each as the change it makes to the result       *)
(***************************************************************************)

\* line 34
PayloadIsDict(p) == IsDict(p)

\* lines 39-40
ProtocolCheck(p, r) ==
    IF ~(IsStr(p.protocol) /\ p.protocol.s = NCP10)
    THEN AddError("PROTOCOL_INVALID", "$.protocol", "BLOCKING", r)
    ELSE r

\* lines 43-48
SemanticTypeCheck(p, r) ==
    LET sem_type == p.semantic_type
    IN  IF ~IsStr(sem_type)
        THEN AddError("SEMANTIC_TYPE_MISSING", "$.semantic_type", "BLOCKING", r)
        ELSE IF ~InSemanticTypes(sem_type)
        THEN Deduct(AddError("SEMANTIC_TYPE_UNKNOWN", "$.semantic_type",
                             "WARNING", r),
                    SEMANTIC_TYPE_DEDUCTION)
        ELSE r

\* lines 55-57
NameCheck(identity, r) ==
    LET name == identity.name
    IN  IF ~IsStr(name) \/ Len(name.s) < NAME_MIN \/ Len(name.s) > NAME_MAX
        THEN AddError("IDENTITY_NAME_INVALID", "$.identity.name", "BLOCKING", r)
        ELSE r

\* line 60, negated: the url is a string that starts with https://
UrlIsHttps(url) == IsStr(url) /\ StartsWith(url.s, HTTPS)

\* line 65
PayloadHost(url) ==
    LET hostname == Hostname(url.s)
    IN  IF hostname # <<>> THEN Replace(hostname, WWW, <<>>) ELSE <<>>

\* line 66
CrawledHost(cd) == Replace(cd.s, WWW, <<>>)

\* the exception lines 64-66 raise: urlparse's ValueError, or the
\* AttributeError of .replace on a crawled_domain that is no string
OriginException(url, cd) ==
    IF UrlparseRaises(url.s) THEN "ValueError"
    ELSE IF ~IsStr(cd) THEN "AttributeError"
    ELSE "none"

\* mutant: the handler of line 70 narrowed to ValueError
ExceptValueErrorOnly(e) == e = "ValueError"

\* line 70: `except Exception` catches every exception of the try block
ExceptException(e) == e \in {"ValueError", "AttributeError", "TypeError"}

\* line 121: `except (ValueError, TypeError)`
ExceptValueOrTypeError(e) == e \in {"ValueError", "TypeError"}

\* lines 59-71
UrlCheck(identity, cd, r) ==
    LET url == identity.url
    IN  IF ~UrlIsHttps(url)
        THEN AddError("IDENTITY_URL_INVALID", "$.identity.url", "BLOCKING", r)
        ELSE IF Truthy(cd)
        THEN IF OriginException(url, cd) # "none"
             THEN IF ExceptException(OriginException(url, cd))
                  THEN AddError("IDENTITY_URL_MALFORMED", "$.identity.url",
                                "BLOCKING", r)
                  ELSE r
             ELSE IF PayloadHost(url) # CrawledHost(cd)
             THEN Deduct(AddError("ORIGIN_MISMATCH", "$.identity.url",
                                  "WARNING", r),
                         ORIGIN_DEDUCTION)
             ELSE r
        ELSE r

\* an exception of lines 63-69 that the handler of line 70 lets through
UrlCheckRaises(identity, cd) ==
    /\ UrlIsHttps(identity.url)
    /\ Truthy(cd)
    /\ OriginException(identity.url, cd) # "none"
    /\ ~ExceptException(OriginException(identity.url, cd))

\* lines 51-71
IdentityCheck(p, cd, r) ==
    LET identity == p.identity
    IN  IF ~IsDict(identity)
        THEN AddError("IDENTITY_MISSING", "$.identity", "BLOCKING", r)
        ELSE UrlCheck(identity, cd, NameCheck(identity, r))

\* lines 89-91, from index idx (1-based here, 0-based in the path)
RECURSIVE SignalsLoop(_, _, _)
SignalsLoop(signals, idx, r) ==
    IF idx > Len(signals) THEN r
    ELSE LET sig == signals[idx]
         IN  SignalsLoop(signals, idx + 1,
                 IF ~(sig.t = "dict") \/ "type" \notin sig.keys
                                      \/ "url" \notin sig.keys
                 THEN AddError("AUTHORITY_SIGNAL_MALFORMED",
                               "$.authority.external_signals["
                                   \o ToString(idx - 1) \o "]",
                               "BLOCKING", r)
                 ELSE r)

\* lines 78-79
VerifiedCheck(authority, r) ==
    IF ~IsBool(authority.verified)
    THEN AddError("AUTHORITY_VERIFIED_INVALID", "$.authority.verified",
                  "BLOCKING", r)
    ELSE r

\* lines 81-83
TrustScoreCheck(authority, r) ==
    LET score == authority.trust_score
    IN  IF ~IsNumber(score) \/ NumValue(score) < 0
                            \/ NumValue(score) > Scaled(TRUST_MAX)
        THEN AddError("AUTHORITY_SCORE_INVALID", "$.authority.trust_score",
                      "BLOCKING", r)
        ELSE r

\* lines 85-91
SignalsCheck(authority, r) ==
    LET signals == authority.external_signals
    IN  IF ~IsList(signals) \/ Len(signals.items) > MAX_SIGNALS
        THEN AddError("AUTHORITY_SIGNALS_INVALID",
                      "$.authority.external_signals", "BLOCKING", r)
        ELSE SignalsLoop(signals.items, 1, r)

\* mutant: the authority section skipped once an earlier check has failed
AuthorityCheckShortCircuit(p, r) ==
    LET authority == p.authority
    IN  IF Len(r.blocking_errors) > 0 THEN r
        ELSE IF ~IsDict(authority)
        THEN AddError("AUTHORITY_MISSING", "$.authority", "BLOCKING", r)
        ELSE SignalsCheck(authority,
                 TrustScoreCheck(authority, VerifiedCheck(authority, r)))

\* lines 74-91
AuthorityCheck(p, r) ==
    LET authority == p.authority
    IN  IF ~IsDict(authority)
        THEN AddError("AUTHORITY_MISSING", "$.authority", "BLOCKING", r)
        ELSE SignalsCheck(authority,
                 TrustScoreCheck(authority, VerifiedCheck(authority, r)))

\* lines 94-100
EntitiesCheck(p, r) ==
    LET entities == p.entities
    IN  IF ~IsDict(entities)
        THEN AddError("ENTITIES_MISSING", "$.entities", "BLOCKING", r)
        ELSE LET primary == entities.primary
             IN  IF ~IsList(primary) \/ Len(primary.items) = 0
                                     \/ Len(primary.items) > MAX_PRIMARY
                 THEN AddError("ENTITIES_PRIMARY_INVALID", "$.entities.primary",
                               "BLOCKING", r)
                 ELSE r

\* lines 103-109
OfferCheck(p, r) ==
    LET offer == p.offer
    IN  IF ~IsDict(offer)
        THEN AddError("OFFER_MISSING", "$.offer", "BLOCKING", r)
        ELSE IF ~IsNone(offer.price) /\ ~IsStr(offer.currency)
        THEN AddError("OFFER_CURRENCY_MISSING", "$.offer.currency",
                      "BLOCKING", r)
        ELSE r

\* the exception lines 119-120 raise
TimestampException(timestamp) ==
    IF ~IsStr(timestamp) THEN "ValueError"
    ELSE IF FromIsoformatRaises(Replace(timestamp.s, <<"Z">>,
                                        <<"+","0","0",":","0","0">>))
    THEN "ValueError"
    ELSE "none"

\* lines 116-122
TimestampCheck(context, r) ==
    IF /\ TimestampException(context.timestamp) # "none"
       /\ ExceptValueOrTypeError(TimestampException(context.timestamp))
    THEN AddError("CONTEXT_TIMESTAMP_INVALID", "$.context.timestamp",
                  "BLOCKING", r)
    ELSE r

\* an exception of lines 119-120 that the handler of line 121 lets through
TimestampCheckRaises(context) ==
    /\ TimestampException(context.timestamp) # "none"
    /\ ~ExceptValueOrTypeError(TimestampException(context.timestamp))

\* lines 124-127
SummaryCheck(context, r) ==
    LET summary == context.summary
    IN  IF IsStr(summary) /\ Len(summary.s) < SUMMARY_MIN
        THEN Deduct(AddError("CONTEXT_SUMMARY_LENGTH", "$.context.summary",
                             "WARNING", r),
                    SUMMARY_DEDUCTION)
        ELSE r

\* lines 112-127
ContextCheck(p, r) ==
    LET context == p.context
    IN  IF ~IsDict(context)
        THEN AddError("CONTEXT_MISSING", "$.context", "BLOCKING", r)
        ELSE SummaryCheck(context, TimestampCheck(context, r))

(***************************************************************************)
(* The gates of the compliance level algorithm                             *)
(***************************************************************************)

\* line 139
is_enum(p) == InSemanticTypes(p.semantic_type)

\* line 140
has_long_summary(p) ==
    /\ DictTruthy(p.context, {"timestamp", "summary"})
    /\ IsStr(p.context.summary)
    /\ Len(p.context.summary.s) >= SUMMARY_MIN

\* line 141
has_signals(p) ==
    /\ DictTruthy(p.authority, {"verified", "trust_score", "external_signals"})
    /\ IsList(p.authority.external_signals)
    /\ Len(p.authority.external_signals.items) > 0

\* mutant: the PLUS gate without its external_signals condition
PlusGateWithoutSignals(p) == is_enum(p) /\ has_long_summary(p)

\* line 143
PlusGate(p) == is_enum(p) /\ has_long_summary(p) /\ has_signals(p)

\* line 147
has_origin_warning(r) ==
    \E i \in 1..Len(r.warnings) : r.warnings[i].code = "ORIGIN_MISMATCH"

\* line 148
is_https(p) == IsDict(p.identity) /\ UrlIsHttps(p.identity.url)

\* line 149
is_verified(p) ==
    /\ DictTruthy(p.authority, {"verified", "trust_score", "external_signals"})
    /\ IsBool(p.authority.verified) /\ p.authority.verified.b

\* mutant: trust_score > 7.0 instead of >= 7.0
high_trust_strict(p) ==
    /\ DictTruthy(p.authority, {"verified", "trust_score", "external_signals"})
    /\ IsNumber(p.authority.trust_score)
    /\ NumValue(p.authority.trust_score) > Scaled(HIGH_TRUST)

\* line 150
high_trust(p) ==
    /\ DictTruthy(p.authority, {"verified", "trust_score", "external_signals"})
    /\ IsNumber(p.authority.trust_score)
    /\ NumValue(p.authority.trust_score) >= Scaled(HIGH_TRUST)

\* mutant: the VERIFIED-L1 gate without its origin condition
VerifiedGateIgnoringOrigin(p, r) ==
    is_https(p) /\ is_verified(p) /\ high_trust(p)

\* line 152
VerifiedGate(p, r) ==
    is_https(p) /\ is_verified(p) /\ high_trust(p) /\ ~has_origin_warning(r)

(***************************************************************************)
(* The call, step by step                                                  *)
(***************************************************************************)

\* lines 34-36
CheckPayload ==
    /\ pc = "payload"
    /\ IF ~PayloadIsDict(payload)
       THEN /\ result' = AddError("PAYLOAD_INVALID", "$", "BLOCKING", result)
            /\ pc' = "returned"
       ELSE /\ result' = result
            /\ pc' = "protocol"
    /\ UNCHANGED <<payload, crawled_domain>>

\* lines 38-40
CheckProtocol ==
    /\ pc = "protocol"
    /\ result' = ProtocolCheck(payload, result)
    /\ pc' = "semantic_type"
    /\ UNCHANGED <<payload, crawled_domain>>

\* lines 42-48
CheckSemanticType ==
    /\ pc = "semantic_type"
    /\ result' = SemanticTypeCheck(payload, result)
    /\ pc' = "identity"
    /\ UNCHANGED <<payload, crawled_domain>>

\* lines 50-71
CheckIdentity ==
    /\ pc = "identity"
    /\ result' = IdentityCheck(payload, crawled_domain, result)
    /\ IF IsDict(payload.identity)
          /\ UrlCheckRaises(payload.identity, crawled_domain)
       THEN pc' = "raised"
       ELSE pc' = "authority"
    /\ UNCHANGED <<payload, crawled_domain>>

\* lines 73-91
CheckAuthority ==
    /\ pc = "authority"
    /\ result' = AuthorityCheck(payload, result)
    /\ pc' = "entities"
    /\ UNCHANGED <<payload, crawled_domain>>

\* lines 93-100
CheckEntities ==
    /\ pc = "entities"
    /\ result' = EntitiesCheck(payload, result)
    /\ pc' = "offer"
    /\ UNCHANGED <<payload, crawled_domain>>

\* lines 102-109
CheckOffer ==
    /\ pc = "offer"
    /\ result' = OfferCheck(payload, result)
    /\ pc' = "context"
    /\ UNCHANGED <<payload, crawled_domain>>

\* lines 111-127
CheckContext ==
    /\ pc = "context"
    /\ result' = ContextCheck(payload, result)
    /\ IF IsDict(payload.context) /\ TimestampCheckRaises(payload.context)
       THEN pc' = "raised"
       ELSE pc' = "resolve"
    /\ UNCHANGED <<payload, crawled_domain>>

\* mutant: line 133 left out
ResolveResultKeepingScore(r) ==
    IF Len(r.blocking_errors) > 0
    THEN [r EXCEPT !.status = "FAIL", !.compliance_level = "NONE"]
    ELSE [r EXCEPT !.status = "PASS", !.compliance_level = "CORE"]

\* the result after lines 130-137
ResolveResult(r) ==
    IF Len(r.blocking_errors) > 0
    THEN [r EXCEPT !.status = "FAIL", !.compliance_level = "NONE", !.score = 0]
    ELSE [r EXCEPT !.status = "PASS", !.compliance_level = "CORE"]

\* mutant: line 134 left out, the gates run on a failed result
ResolveNextAlwaysGates(r) == "gate_plus"

\* where line 134 or line 137 leaves the call
ResolveNext(r) ==
    IF Len(r.blocking_errors) > 0 THEN "returned" ELSE "gate_plus"

\* lines 130-137
ResolveStatus ==
    /\ pc = "resolve"
    /\ result' = ResolveResult(result)
    /\ pc' = ResolveNext(result)
    /\ UNCHANGED <<payload, crawled_domain>>

\* lines 139-144
GatePlus ==
    /\ pc = "gate_plus"
    /\ IF PlusGate(payload)
       THEN /\ result' = [result EXCEPT !.compliance_level = "PLUS"]
            /\ pc' = "gate_verified"
       ELSE /\ result' = result
            /\ pc' = "returned"
    /\ UNCHANGED <<payload, crawled_domain>>

\* lines 147-153, then line 155
GateVerified ==
    /\ pc = "gate_verified"
    /\ result' = IF VerifiedGate(payload, result)
                 THEN [result EXCEPT !.compliance_level = "VERIFIED-L1"]
                 ELSE result
    /\ pc' = "returned"
    /\ UNCHANGED <<payload, crawled_domain>>

Next ==
    \/ CheckPayload
    \/ CheckProtocol
    \/ CheckSemanticType
    \/ CheckIdentity
    \/ CheckAuthority
    \/ CheckEntities
    \/ CheckOffer
    \/ CheckContext
    \/ ResolveStatus
    \/ GatePlus
    \/ GateVerified

(***************************************************************************)
(* The calls checked: payloads and crawled domains                         *)
(***************************************************************************)

\* host names are built from at most MaxLabels labels before the domain
MaxLabels == 2
\* external_signals lists of every length up to MaxSignalItems
MaxSignalItems == 2

Labels == {WWW,
           <<"e","x","a","m","p","l","e",".">>,
           <<"E","X","A","M","P","L","E",".">>}
Tlds == {<<"c","o","m">>, <<"o","r","g">>}

RECURSIVE Join(_)
Join(parts) == IF parts = <<>> THEN <<>> ELSE Head(parts) \o Join(Tail(parts))

Hosts ==
    {Join(ls) \o tld : ls \in UNION {[1..k -> Labels] : k \in 0..MaxLabels},
                       tld \in Tlds}

PagePath == <<"/","p","a","g","e">>
ExampleCom == <<"e","x","a","m","p","l","e",".","c","o","m">>
ExampleOrg == <<"e","x","a","m","p","l","e",".","o","r","g">>
WwwExampleComPage == HTTPS \o WWW \o ExampleCom \o PagePath

\* urls whose host is one of Hosts, and urls with a user, a port, an IPv6
\* literal, an unbalanced bracket, no host, no path
HostUrls == {Str(HTTPS \o h \o PagePath) : h \in Hosts}
OddUrls ==
    {Str(HTTPS \o <<"u","s","e","r","@">> \o WWW \o ExampleCom
               \o <<":","8","4","4","3">> \o PagePath),
     Str(HTTPS \o <<"[",":",":","1","]">> \o PagePath),
     Str(HTTPS \o <<"[","b","a","d">> \o PagePath),
     Str(HTTPS),
     Str(HTTPS \o ExampleCom)}
BadUrls ==
    {Absent, Num(Scaled(1)),
     Str(<<"h","t","t","p",":","/","/">> \o ExampleCom \o PagePath)}

\* None, "", a host name, a number
HostDomains == {Str(h) : h \in Hosts}
FewDomains == {Null, Str(ExampleCom), Str(ExampleOrg), Num(Scaled(123))}
OddDomains == {Null, Str(<<>>), Num(0), Num(Scaled(123)), Container("list", 1)}

XString(n) == [i \in 1..n |-> "x"]

GoodName == Str(<<"A","c","m","e"," ","C","o","r","p">>)
Names == {GoodName, Str(<<"A","c">>), Str(XString(NAME_MIN)),
          Str(XString(NAME_MAX)), Str(XString(NAME_MAX + 1)), Absent}

Identity(name, url) == [t |-> "dict", name |-> name, url |-> url]
NoIdentity(tag) == [t |-> tag, name |-> Absent, url |-> Absent]
GoodIdentity == Identity(GoodName, Str(WwwExampleComPage))

GoodSignal == [t |-> "dict", keys |-> {"type", "url"}]
SignalItems == {GoodSignal,
                [t |-> "dict", keys |-> {"type"}],
                [t |-> "str", keys |-> {}]}
Signals(items) == [t |-> "list", items |-> items]
NoSignals(tag) == [t |-> tag, items |-> <<>>]
SignalLists ==
    {Signals(l) : l \in UNION {[1..k -> SignalItems] : k \in 0..MaxSignalItems}}
        \cup {Signals([i \in 1..MAX_SIGNALS |-> GoodSignal]),
              Signals([i \in 1..(MAX_SIGNALS + 1) |-> GoodSignal]),
              NoSignals("absent"), NoSignals("dict")}

Authority(verified, trust_score, signals) ==
    [t |-> "dict", verified |-> verified, trust_score |-> trust_score,
     external_signals |-> signals]
NoAuthority(tag) ==
    [t |-> tag, verified |-> Absent, trust_score |-> Absent,
     external_signals |-> NoSignals("absent")]
GoodAuthority == Authority(Bool(TRUE), Num(85), Signals(<<GoodSignal>>))
TrustScores == {Num(85), Num(Scaled(HIGH_TRUST)), Num(Scaled(HIGH_TRUST) - 1),
                Num(0), Num(-1), Num(Scaled(TRUST_MAX)),
                Num(Scaled(TRUST_MAX) + 1), Bool(TRUE), Absent,
                Str(<<"8">>)}

Primary(items) == [t |-> "list", items |-> items]
NoPrimary(tag) == [t |-> tag, items |-> <<>>]
Entities(primary) == [t |-> "dict", primary |-> primary]
NoEntities(tag) == [t |-> tag, primary |-> NoPrimary("absent")]
GoodEntities == Entities(Primary(<< <<"A","c","m","e">> >>))
Primaries == {Primary(<< <<"A","c","m","e">> >>), Primary(<<>>),
              Primary([i \in 1..MAX_PRIMARY |-> <<"A">>]),
              Primary([i \in 1..(MAX_PRIMARY + 1) |-> <<"A">>]),
              NoPrimary("absent"), NoPrimary("str")}

Offer(price, currency) == [t |-> "dict", price |-> price, currency |-> currency]
NoOffer(tag) == [t |-> tag, price |-> Absent, currency |-> Absent]
GoodOffer == Offer(Absent, Absent)
Offers == {Offer(pr, cu) : pr \in {Absent, Null, Num(995)},
                           cu \in {Absent, Str(<<"U","S","D">>), Num(1)}}

Context(timestamp, summary) ==
    [t |-> "dict", timestamp |-> timestamp, summary |-> summary]
NoContext(tag) == [t |-> tag, timestamp |-> Absent, summary |-> Absent]
GoodTimestamp ==
    Str(<<"2","0","2","4","-","0","1","-","0","1","T",
          "0","0",":","0","0",":","0","0","Z">>)
Timestamps ==
    {GoodTimestamp,
     Str(<<"2","0","2","4","-","0","1","-","0","1">>),
     Str(<<"2","0","2","4","-","1","3","-","0","1","T",
           "0","0",":","0","0",":","0","0","Z">>),
     Str(<<"y","e","s","t","e","r","d","a","y">>),
     Absent, Num(2024)}
Summaries == {Str(XString(SUMMARY_MIN + 10)), Str(XString(SUMMARY_MIN)),
              Str(XString(SUMMARY_MIN - 1)), Absent, Num(1)}
GoodContext == Context(GoodTimestamp, Str(XString(SUMMARY_MIN + 10)))

Product == Str(<<"p","r","o","d","u","c","t">>)
Widget == Str(<<"w","i","d","g","e","t">>)

Payload(protocol, semantic_type, identity, authority, entities, offer, context) ==
    [t |-> "dict", n |-> 0, protocol |-> protocol,
     semantic_type |-> semantic_type, identity |-> identity,
     authority |-> authority, entities |-> entities, offer |-> offer,
     context |-> context]

\* {}
EmptyPayload ==
    Payload(Absent, Absent, NoIdentity("absent"), NoAuthority("absent"),
            NoEntities("absent"), NoOffer("absent"), NoContext("absent"))

\* null, [1,2,3], 5, "x", true
NonObject(tag, size) == [EmptyPayload EXCEPT !.t = tag, !.n = size]
NonObjectPayloads ==
    {NonObject("null", 0), NonObject("list", 3), NonObject("list", 0),
     NonObject("num", 5), NonObject("str", 1), NonObject("bool", 0)}

GoodPayload ==
    Payload(Str(NCP10), Product, GoodIdentity, GoodAuthority, GoodEntities,
            GoodOffer, GoodContext)

\* every field absent, well-formed, of a wrong type, or with wrong content
ShapePayloads ==
    {Payload(pr, st, id, au, en, of, cx) :
        pr \in {Absent, Str(NCP10), Str(<<"N","C","P","/","1",".","1">>)},
        st \in {Absent, Product, Widget, Num(1)},
        id \in {NoIdentity("absent"), GoodIdentity,
                Identity(Str(<<"A","c">>),
                         Str(HTTPS \o <<"[","b","a","d">> \o PagePath))},
        au \in {NoAuthority("list"), GoodAuthority,
                Authority(Absent, Num(Scaled(TRUST_MAX) + 1),
                          Signals(<<[t |-> "str", keys |-> {}]>>))},
        en \in {NoEntities("null"), GoodEntities, Entities(Primary(<<>>))},
        of \in {NoOffer("absent"), GoodOffer, Offer(Num(995), Absent)},
        cx \in {NoContext("str"), GoodContext,
                Context(Str(<<"y","e","s","t","e","r","d","a","y">>),
                        Str(XString(SUMMARY_MIN - 1)))}}

\* one section varied in depth, the others well-formed
SectionPayloads ==
    {[GoodPayload EXCEPT !.identity = Identity(nm, u)] :
        nm \in Names, u \in BadUrls \cup OddUrls}
    \cup {[GoodPayload EXCEPT !.authority = Authority(v, ts, sg)] :
        v \in {Bool(TRUE), Bool(FALSE), Absent, Num(Scaled(1))},
        ts \in TrustScores, sg \in SignalLists}
    \cup {[GoodPayload EXCEPT !.entities = Entities(pm)] : pm \in Primaries}
    \cup {[GoodPayload EXCEPT !.offer = o] : o \in Offers}
    \cup {[GoodPayload EXCEPT !.context = Context(ts, sm)] :
        ts \in Timestamps, sm \in Summaries}

\* payloads without blocking findings: every input of the tier gates varied
TierPayloads ==
    {[GoodPayload EXCEPT !.semantic_type = st,
                         !.authority = Authority(v, ts, sg),
                         !.context = Context(GoodTimestamp, sm)] :
        st \in {Product, Widget},
        v \in {Bool(TRUE), Bool(FALSE)},
        ts \in {Num(85), Num(Scaled(HIGH_TRUST)), Num(Scaled(HIGH_TRUST) - 1),
                Bool(TRUE)},
        sg \in {Signals(<<GoodSignal>>), Signals(<<>>)},
        sm \in Summaries}

\* the origin check: every host against every crawled domain
OriginPayloads ==
    {[GoodPayload EXCEPT !.identity = Identity(GoodName, u)] :
        u \in HostUrls \cup OddUrls}

Calls ==
    (NonObjectPayloads \X OddDomains)
    \cup ({EmptyPayload} \X FewDomains)
    \cup (ShapePayloads \X FewDomains)
    \cup (SectionPayloads \X FewDomains)
    \cup (TierPayloads \X FewDomains)
    \cup (OriginPayloads \X (HostDomains \cup OddDomains))

\* the state after lines 24-32
Init ==
    /\ \E call \in Calls :
          /\ payload = call[1]
          /\ crawled_domain = call[2]
    /\ result = NewResult
    /\ pc = "payload"

Spec == Init /\ [][Next]_vars

(***************************************************************************)
(* What the properties below refer to                                      *)
(***************************************************************************)

Returned == pc = "returned"

BlockingCodes == Codes(result.blocking_errors)
WarningCodes == Codes(result.warnings)
AllCodes ==
    BlockingCodes \cup WarningCodes \cup Codes(result.recommendations)

\* how often a code was recorded as a blocking error
BlockingCount(code) ==
    Cardinality({i \in 1..Len(result.blocking_errors) :
                    result.blocking_errors[i].code = code})

LevelRank(level) ==
    CASE level = "NONE" -> 0
      [] level = "CORE" -> 1
      [] level = "PLUS" -> 2
      [] level = "VERIFIED-L1" -> 3

\* the rules of the specification, stated on the raw payload
OfficialEnum ==
    {<<"u","n","i","v","e","r","s","a","l">>, <<"p","r","o","d","u","c","t">>,
     <<"a","r","t","i","c","l","e">>,
     <<"o","r","g","a","n","i","z","a","t","i","o","n">>,
     <<"s","e","r","v","i","c","e">>, <<"p","e","r","s","o","n">>,
     <<"e","v","e","n","t">>}

RuleSemanticEnum ==
    payload.semantic_type.t = "str" /\ payload.semantic_type.s \in OfficialEnum

RuleLongSummary ==
    /\ payload.context.t = "dict"
    /\ payload.context.summary.t = "str"
    /\ Len(payload.context.summary.s) >= 50

RuleSignals ==
    /\ payload.authority.t = "dict"
    /\ payload.authority.external_signals.t = "list"
    /\ Len(payload.authority.external_signals.items) >= 1

RulePlus == RuleSemanticEnum /\ RuleLongSummary /\ RuleSignals

RuleVerified ==
    /\ "ORIGIN_MISMATCH" \notin WarningCodes
    /\ payload.identity.t = "dict"
    /\ payload.identity.url.t = "str"
    /\ StartsWith(payload.identity.url.s, HTTPS)
    /\ payload.authority.t = "dict"
    /\ payload.authority.verified = Bool(TRUE)
    /\ payload.authority.trust_score.t = "num"
    /\ payload.authority.trust_score.n >= 70

\* the score a result without blocking errors has, one deduction per warning
ScoreOfWarnings ==
    100 - (IF "SEMANTIC_TYPE_UNKNOWN" \in WarningCodes THEN 10 ELSE 0)
        - (IF "ORIGIN_MISMATCH" \in WarningCodes THEN 20 ELSE 0)
        - (IF "CONTEXT_SUMMARY_LENGTH" \in WarningCodes THEN 5 ELSE 0)

\* s without one leading "www."
StripLeadingWww(s) ==
    IF StartsWith(s, WWW) THEN SubSeq(s, Len(WWW) + 1, Len(s)) ELSE s

\* the call of the origin mismatch scenario: the url of the scenario, and
\* every other required field valid
ScenarioPayload ==
    /\ IsDict(payload)
    /\ payload.identity.t = "dict"
    /\ payload.identity.url = Str(WwwExampleComPage)
    /\ result.blocking_errors = <<>>

(***************************************************************************)
(* Properties                                                              *)
(***************************************************************************)

\* C1: a payload that is not an object returns exactly one finding,
\* PAYLOAD_INVALID with severity BLOCKING, no warnings and no
\* recommendations, status FAIL and score 0.
C1_NonObjectPayload ==
    (Returned /\ ~IsDict(payload)) =>
        /\ Len(result.blocking_errors) = 1
        /\ result.blocking_errors[1].code = "PAYLOAD_INVALID"
        /\ result.blocking_errors[1].severity = "BLOCKING"
        /\ result.warnings = <<>>
        /\ result.recommendations = <<>>
        /\ result.status = "FAIL"
        /\ result.score = 0

\* C2: the returned score is in [0,100], and it is 0 if and only if
\* blocking_errors is non-empty.
C2_ScoreRange ==
    Returned =>
        /\ result.score \in 0..100
        /\ (result.score = 0) <=> (result.blocking_errors # <<>>)

C4_TierMonotonicity ==
    Returned =>
        /\ result.compliance_level = "VERIFIED-L1" => RulePlus
        /\ result.compliance_level \in {"PLUS", "VERIFIED-L1"} =>
              /\ result.blocking_errors = <<>>
              /\ result.status = "PASS"

C4_Witness ==
    /\ Returned
    /\ result.compliance_level = "VERIFIED-L1"
    /\ RulePlus
    /\ result.status = "PASS"

\* C5: without a blocking finding the result is PASS with VERIFIED-L1
\* exactly when the PLUS conditions and the four VERIFIED-L1 conditions
\* hold, PLUS exactly when the PLUS conditions hold and one of the four
\* fails, CORE otherwise; a semantic_type outside the enum never exceeds
\* CORE; with a blocking finding the result is FAIL / NONE.
C5_ResolverFunction ==
    Returned =>
        /\ result.blocking_errors # <<>> =>
              /\ result.status = "FAIL"
              /\ result.compliance_level = "NONE"
        /\ (IsDict(payload) /\ result.blocking_errors = <<>>) =>
              /\ result.status = "PASS"
              /\ result.compliance_level =
                    IF RulePlus /\ RuleVerified THEN "VERIFIED-L1"
                    ELSE IF RulePlus THEN "PLUS"
                    ELSE "CORE"
        /\ (payload.semantic_type.t = "str" /\ ~RuleSemanticEnum) =>
              result.compliance_level \in {"NONE", "CORE"}

\* a trust_score of exactly 7.0 reaches VERIFIED-L1
C5_Witness ==
    /\ Returned
    /\ result.blocking_errors = <<>>
    /\ RulePlus /\ RuleVerified
    /\ payload.authority.trust_score = Num(70)
    /\ result.compliance_level = "VERIFIED-L1"

\* C6: validate({}) returns exactly the seven BLOCKING findings for
\* protocol, semantic_type, identity, authority, entities, offer and
\* context, in that order, nothing else, FAIL / NONE and score 0.
C6_MinimalFailingPayload ==
    (Returned /\ payload = EmptyPayload) =>
        /\ result.blocking_errors =
              << [code |-> "PROTOCOL_INVALID", severity |-> "BLOCKING",
                  path |-> "$.protocol"],
                 [code |-> "SEMANTIC_TYPE_MISSING", severity |-> "BLOCKING",
                  path |-> "$.semantic_type"],
                 [code |-> "IDENTITY_MISSING", severity |-> "BLOCKING",
                  path |-> "$.identity"],
                 [code |-> "AUTHORITY_MISSING", severity |-> "BLOCKING",
                  path |-> "$.authority"],
                 [code |-> "ENTITIES_MISSING", severity |-> "BLOCKING",
                  path |-> "$.entities"],
                 [code |-> "OFFER_MISSING", severity |-> "BLOCKING",
                  path |-> "$.offer"],
                 [code |-> "CONTEXT_MISSING", severity |-> "BLOCKING",
                  path |-> "$.context"] >>
        /\ result.warnings = <<>>
        /\ result.recommendations = <<>>
        /\ result.status = "FAIL"
        /\ result.compliance_level = "NONE"
        /\ result.score = 0

C6_Witness ==
    /\ Returned
    /\ payload = EmptyPayload
    /\ Len(result.blocking_errors) = 7

\* the url check of lines 63-69 is reached and fails: urlparse raises, or
\* crawled_domain has no .replace
UrlFailure ==
    /\ IsDict(payload)
    /\ payload.identity.t = "dict"
    /\ payload.identity.url.t = "str"
    /\ StartsWith(payload.identity.url.s, HTTPS)
    /\ Truthy(crawled_domain)
    /\ \/ UrlparseRaises(payload.identity.url.s)
       \/ crawled_domain.t # "str"

\* the positions of a call in the order it passes them; every action is
\* enabled at its own position, whatever the payload
PcRank ==
    [p \in {"payload", "protocol", "semantic_type", "identity", "authority",
             "entities", "offer", "context", "resolve", "gate_plus",
             "gate_verified", "returned"} |->
        CASE p = "payload" -> 0 [] p = "protocol" -> 1
          [] p = "semantic_type" -> 2 [] p = "identity" -> 3
          [] p = "authority" -> 4 [] p = "entities" -> 5
          [] p = "offer" -> 6 [] p = "context" -> 7
          [] p = "resolve" -> 8 [] p = "gate_plus" -> 9
          [] p = "gate_verified" -> 10 [] p = "returned" -> 11]

\* what C7 says of every state of a call
C7_Inv ==
    /\ pc # "raised"
    /\ pc \in DOMAIN PcRank
    /\ Returned =>
          /\ result.ncp_version = "1.0"
          /\ result.status \in {"PASS", "FAIL"}
          /\ result.compliance_level \in {"NONE", "CORE", "PLUS", "VERIFIED-L1"}
          /\ result.score \in 0..100
    /\ (Returned /\ UrlFailure) =>
          /\ \E i \in 1..Len(result.blocking_errors) :
                result.blocking_errors[i] =
                    [code |-> "IDENTITY_URL_MALFORMED",
                     severity |-> "BLOCKING", path |-> "$.identity.url"]
          /\ result.status = "FAIL"
          /\ payload.authority.t # "dict" => "AUTHORITY_MISSING" \in BlockingCodes
          /\ payload.entities.t # "dict" => "ENTITIES_MISSING" \in BlockingCodes
          /\ payload.offer.t # "dict" => "OFFER_MISSING" \in BlockingCodes
          /\ payload.context.t # "dict" => "CONTEXT_MISSING" \in BlockingCodes

\* C7: the call never raises and every step takes it nearer to returning
\* a complete result; a failure of the url check is recorded as the
\* BLOCKING finding IDENTITY_URL_MALFORMED, the result is FAIL, and the
\* checks of authority, entities, offer and context still run.
C7_Total ==
    /\ []C7_Inv
    /\ [][/\ pc' \in DOMAIN PcRank
          /\ PcRank[pc'] > PcRank[pc]
          /\ PcRank[pc] <= 7 => PcRank[pc'] \in {PcRank[pc] + 1, 11}]_vars

\* a crawled_domain that is a number fails the url check, and the four
\* later sections are still reported
C7_Witness ==
    /\ Returned /\ UrlFailure
    /\ crawled_domain.t = "num"
    /\ "IDENTITY_URL_MALFORMED" \in BlockingCodes
    /\ {"AUTHORITY_MISSING", "ENTITIES_MISSING", "OFFER_MISSING",
        "CONTEXT_MISSING"} \subseteq BlockingCodes

\* C8: for an https url whose host parses and a supplied crawled_domain,
\* ORIGIN_MISMATCH is recorded if and only if the url's host and the
\* crawled_domain differ after one leading "www." is removed from each.
C8_OriginReferenceRule ==
    (/\ Returned
     /\ IsDict(payload)
     /\ payload.identity.t = "dict"
     /\ payload.identity.url.t = "str"
     /\ StartsWith(payload.identity.url.s, HTTPS)
     /\ ~UrlparseRaises(payload.identity.url.s)
     /\ crawled_domain.t = "str" /\ crawled_domain.s # <<>>) =>
        ("ORIGIN_MISMATCH" \in WarningCodes
            <=> StripLeadingWww(Hostname(payload.identity.url.s))
                    # StripLeadingWww(crawled_domain.s))

LevelStep ==
    /\ result'.compliance_level # result.compliance_level =>
          LevelRank(result'.compliance_level)
              = LevelRank(result.compliance_level) + 1
    /\ (/\ result'.compliance_level = "VERIFIED-L1"
        /\ result.compliance_level # "VERIFIED-L1") =>
          /\ result.compliance_level = "PLUS"
          /\ pc = "gate_verified"
    /\ (pc = "resolve" /\ result.blocking_errors # <<>>) =>
          /\ pc' = "returned"
          /\ result'.compliance_level = "NONE"
    /\ pc' \in {"gate_plus", "gate_verified"} =>
          result'.blocking_errors = <<>>
    /\ (pc = "gate_plus" /\ ~RulePlus) =>
          /\ pc' = "returned"
          /\ result'.compliance_level = "CORE"
    /\ (pc = "gate_verified" /\ ~RuleVerified) =>
          /\ pc' = "returned"
          /\ result'.compliance_level = "PLUS"
    /\ pc \notin {"resolve", "gate_plus", "gate_verified"} =>
          result'.compliance_level = result.compliance_level

\* C10: within one run compliance_level only moves to the next tier of
\* NONE < CORE < PLUS < VERIFIED-L1, VERIFIED-L1 only from PLUS, no gate is
\* evaluated once blocking_errors is non-empty, and a failed gate returns
\* the last attained tier.
C10_ForwardOnly == [][LevelStep]_vars

\* PLUS has been assigned and the VERIFIED-L1 gate is about to pass
C10_Witness ==
    /\ pc = "gate_verified"
    /\ result.compliance_level = "PLUS"
    /\ RuleVerified

====
